---- MODULE Spec2Model ----
(***************************************************************************)
(* State-machine model of the safe-route proximity alert engine:           *)
(* the socket gateway (server/controllers/socketController.js), the alert  *)
(* HTTP controllers (server/controllers/alertController.js and its later   *)
(* revision with zod validation and admin token) and the mongoose schemas  *)
(* they save through.                                                      *)
(*                                                                         *)
(* Geography.  A position is a latitude given as whole metres north of the *)
(* Lagos centre point (6.5244, 3.3792) on its meridian; on one meridian    *)
(* the haversine distance R * c is R * |dLat|, so the distance in metres   *)
(* is the absolute difference of two positions.                            *)
(* Degrees are counted in units of 0.00001 degree.                         *)
(* Time is the value of Date.now() in milliseconds.                        *)
(***************************************************************************)
EXTENDS Integers, Sequences, FiniteSets, TLC

(* ---------------- bounds of the model ---------------- *)
MaxAlerts == 2
MaxFloods == 2
MaxTicks == 2

(* ---------------- program constants ---------------- *)
ProximityMaxDistance == 5000
FloodDistanceTrigger == 1000
DefaultDistanceTrigger == 100
DayMs == 86400000
StaleMs == 1800000
SecondMs == 1000
MetresPerDegree == 111195
CentreLat == 652440
CentreLng == 337920
BroadcastDistanceTrigger == 5000
ThreeHoursMs == 10800000

Undefined == "undefined"
NoDate == -1
NoNum == -1
NoAlert == 0

Users == {"u1", "u2"}
Sockets == {"s1", "s2"}
SocketUser(s) == IF s = "s1" THEN "u1" ELSE "u2"

\* a second device of u2, and every socket id the model uses
SecondSockets == {"s5"}
EverySocket == Sockets \cup SecondSockets \cup {"s3", "s4"}

Points == {0, 500, 4000}
LGAs == {"Ikeja", "Surulere"}
AlertTypes == {"traffic", "flood", "weather", "route"}
Severities == {"low", "medium", "high"}
TripAlertTypes == {"traffic", "flood", "weather"}
TripAlertSeverities == {"info", "warning", "critical"}

TripSeq == <<"t1">>
RideSeq == <<"r1">>
TripIds == {TripSeq[i] : i \in 1..Len(TripSeq)}
RideIds == {RideSeq[i] : i \in 1..Len(RideSeq)}

VARIABLES
  now,            \* Date.now()
  ticks,          \* number of clock steps taken (model bound)
  connected,      \* sockets past socketAuthenticate with their handlers registered
  activeIntervals,\* socket ids holding a rain interval
  userLocations,  \* the Map userId -> {latitude, longitude, lga}, in insertion order
  writtenAt,      \* history: time of the last userLocations.set per user
  alerts,         \* the Alert collection, _id = index
  floods,         \* number of documents in the Flood collection
  trips,          \* the Trip collection
  rides,          \* the Ride collection
  emitted,        \* socket.io calls (emit, join) made by the last handler, in order
  response,       \* HTTP response of the last request
  lastOp,         \* the last handler run and its input
  joined,         \* socket.rooms: the rooms each socket has joined
  pending,        \* handlers suspended at an await, with what they hold in locals
  isOnTrip,       \* User.isOnTrip per user
  emergencyContactNotified \* Ride.emergencyContactNotified per ride

vars == <<now, ticks, connected, activeIntervals, userLocations, writtenAt,
          alerts, floods, trips, rides, emitted, response, lastOp,
          joined, pending, isOnTrip, emergencyContactNotified>>

\* what the socket handlers and the alert controllers never write
rest == <<pending, isOnTrip, emergencyContactNotified>>

(* ---------------- pure helpers ---------------- *)
Abs(x) == IF x < 0 THEN -x ELSE x

\* calculateDistance of the alert controller: metres
CalculateDistance(lat1, lat2) == Abs(lat2 - lat1)

\* calculateDistance(...) * 1000 of the socket controller: km converted to metres
DistanceMeters(lat1, lat2) == Abs(lat2 - lat1)

\* char code of the first character of a severity string: MongoDB orders the
\* String field severity by binary comparison ("high" < "low" < "medium")
SeverityKey(sev) ==
  IF sev = "high" THEN 104 ELSE IF sev = "low" THEN 108 ELSE 109

\* $or: [{validUntil: {$gt: new Date()}}, {validUntil: {$exists: false}}]
NotExpired(a, t) == a.validUntil = NoDate \/ a.validUntil > t

\* location: {$near: {$geometry: point, $maxDistance: d}}
Near(a, lat, d) == CalculateDistance(lat, a.location) <= d

AlertIds(al) == 1..Len(al)

\* .sort({severity: -1}): descending by the stored string, ties in _id order
RECURSIVE SortBySeverityDesc(_, _)
SortBySeverityDesc(al, S) ==
  IF S = {} THEN <<>>
  ELSE LET first == CHOOSE x \in S : \A y \in S :
                      \/ SeverityKey(al[x].severity) > SeverityKey(al[y].severity)
                      \/ /\ SeverityKey(al[x].severity) = SeverityKey(al[y].severity)
                         /\ x <= y
       IN <<first>> \o SortBySeverityDesc(al, S \ {first})

Range(s) == {s[i] : i \in 1..Len(s)}

(* ---------------- events ---------------- *)
UserRoom(u) == <<"user", u>>
TripRoom(t) == <<"trip", t>>
RideRoom(r) == <<"ride", r>>
LgaRoom(l) == <<"lga", l>>
SocketOnly(s) == <<"socket", s>>

\* Math.floor(latitude / 0.01) for a position m metres north of the centre
LatGrid(m) == (CentreLat + (m * 100000) \div MetresPerDegree) \div 1000

\* Math.floor(longitude / 0.01) on the centre meridian
LngGrid == CentreLng \div 1000

\* `location:${latGrid}:${lngGrid}`
LocationRoom(m) == <<"location", ToString(LatGrid(m)), ToString(LngGrid)>>

Event(to, name, ids, distance) ==
  [to |-> to, event |-> name, alerts |-> ids, distance |-> distance]

NoResponse == [status |-> 0, alerts |-> <<>>]
\* socket.join(room)
Join(room) == Event(room, "join", <<>>, NoNum)

\* the handler that ran last, its caller and input; detail holds the rest of
\* the input as a set of [key, value] pairs
OpWith(name, user, lat, lga, alert, detail) ==
  [name |-> name, user |-> user, lat |-> lat, lga |-> lga, alert |-> alert,
   detail |-> detail]

Op(name, user, lat, lga, alert) == OpWith(name, user, lat, lga, alert, {})

Pair(key, value) == [key |-> key, value |-> value]

\* a handler suspended at an await: its name, the request (or socket) it
\* serves, the caller, the document it works on and what it holds in locals
Suspended(kind, req, user, target, lat, lga, ids) ==
  [kind |-> kind, req |-> req, user |-> user, target |-> target,
   lat |-> lat, lga |-> lga, ids |-> ids]

Requests == {"a", "b"}

\* the three-level ordering low < medium < high of the severity enum
SeverityRank(sev) ==
  IF sev = "low" THEN 1 ELSE IF sev = "medium" THEN 2 ELSE IF sev = "high" THEN 3 ELSE 0

(* ---------------- mongoose schema validation ---------------- *)
\* Alert: type and severity are enum-validated on save
AlertValid(a) == a.type \in AlertTypes /\ a.severity \in Severities

\* Trip.alerts[]: type and severity are enum-validated on save
TripEntryValid(e) == e.type \in TripAlertTypes /\ e.severity \in TripAlertSeverities

TripValid(trip) == \A i \in 1..Len(trip.alerts) : TripEntryValid(trip.alerts[i])

(* ---------------- the userLocations Map ---------------- *)
HasLocation(locs, u) == \E i \in 1..Len(locs) : locs[i].userId = u

GetLocation(locs, u) == locs[CHOOSE i \in 1..Len(locs) : locs[i].userId = u]

\* Map.set: an existing key keeps its place, a new key goes last
MapSet(locs, u, latitude, lga) ==
  LET entry == [userId |-> u, latitude |-> latitude, lga |-> lga]
  IN IF HasLocation(locs, u)
     THEN [i \in 1..Len(locs) |-> IF locs[i].userId = u THEN entry ELSE locs[i]]
     ELSE Append(locs, entry)

\* Map.delete
MapDelete(locs, u) == SelectSeq(locs, LAMBDA e : e.userId # u)

(* ---------------- sendProximityAlerts ---------------- *)
\* Alert.find({location: $near 5000, triggered: false, not expired, lga?}).sort({severity: -1})
ProximityQuery(al, lat, lga, t) ==
  SortBySeverityDesc(al,
    {i \in AlertIds(al) :
       /\ Near(al[i], lat, ProximityMaxDistance)
       /\ ~al[i].triggered
       /\ NotExpired(al[i], t)
       /\ (lga = Undefined \/ al[i].lga = lga)})

\* alerts.find((a) => a.severity === "high") || alerts[0]
PickAlert(al, list) ==
  IF \E i \in 1..Len(list) : al[list[i]].severity = "high"
  THEN list[CHOOSE i \in 1..Len(list) :
              /\ al[list[i]].severity = "high"
              /\ \A j \in 1..(i - 1) : al[list[j]].severity # "high"]
  ELSE IF Len(list) > 0 THEN list[1] ELSE NoAlert

\* alertId ? Alert.findById(alertId) : the list query, then the pick
AlertData(al, lat, lga, alertId, t) ==
  IF alertId # NoAlert
  THEN (IF alertId \in AlertIds(al) THEN alertId ELSE NoAlert)
  ELSE PickAlert(al, ProximityQuery(al, lat, lga, t))

\* Trip.find({userId, status: "active", lga: lga || {$exists: true}})
ActiveTripsOf(trps, u, lga) ==
  SelectSeq(TripSeq, LAMBDA t :
    /\ trps[t].userId = u
    /\ trps[t].status = "active"
    /\ (lga = Undefined \/ trps[t].lga = lga))

\* Ride.find({$or: [createdBy, passengers, driver], status: {$in: ["accepted", "in_progress"]}, lga})
ActiveRidesOf(rds, u, lga) ==
  SelectSeq(RideSeq, LAMBDA r :
    /\ (rds[r].createdBy = u \/ u \in rds[r].passengers \/ rds[r].driver = u)
    /\ rds[r].status \in {"accepted", "in_progress"}
    /\ (lga = Undefined \/ rds[r].lga = lga))

\* the body of the loop for one entry of userLocations, from state acc
NotifyUser(acc, al, rds, entry, lat, lga, alertData) ==
  LET distance == DistanceMeters(entry.latitude, lat)
      prox == Event(UserRoom(entry.userId), "proximityFloodAlert", <<alertData>>, distance)
      pushed == [type |-> "flood", severity |-> al[alertData].severity]
      ts == ActiveTripsOf(acc.trips, entry.userId, lga)
      rs == ActiveRidesOf(rds, entry.userId, lga)
  IN IF distance > ProximityMaxDistance \/ alertData = NoAlert THEN acc
     ELSE IF Len(ts) > 0 /\ ~TripEntryValid(pushed)
     THEN \* trip.save() rejects the pushed entry: the helper throws
          [events |-> Append(acc.events, prox),
           trips |-> acc.trips,
           threw |-> TRUE]
     ELSE [events |-> Append(acc.events, prox)
                      \o [i \in 1..Len(ts) |-> Event(TripRoom(ts[i]), "tripAlerts", <<alertData>>, NoNum)]
                      \o [i \in 1..Len(rs) |-> Event(RideRoom(rs[i]), "rideAlerts", <<alertData>>, NoNum)],
           trips |-> [t \in TripIds |->
                        IF t \in Range(ts)
                        THEN [acc.trips[t] EXCEPT !.alerts = Append(@, pushed)]
                        ELSE acc.trips[t]],
           threw |-> FALSE]

RECURSIVE SendLoop(_, _, _, _, _, _, _, _, _)
SendLoop(i, acc, locs, al, rds, lat, lga, alertData, currentUserId) ==
  IF i > Len(locs) \/ acc.threw THEN acc
  ELSE SendLoop(i + 1,
                IF locs[i].userId = currentUserId THEN acc
                ELSE NotifyUser(acc, al, rds, locs[i], lat, lga, alertData),
                locs, al, rds, lat, lga, alertData, currentUserId)

sendProximityAlerts(locs, al, trps, rds, lat, lga, alertId, currentUserId, t) ==
  SendLoop(1, [events |-> <<>>, trips |-> trps, threw |-> FALSE],
           locs, al, rds, lat, lga, AlertData(al, lat, lga, alertId, t), currentUserId)

(* ---------------- initial state ---------------- *)
\* The process has just started: no socket, an empty userLocations Map, an
\* empty Alert and Flood collection.  The Trip collection holds a started
\* trip of u2, the Ride collection a pending ride of u1 with passenger u2.
Init ==
  /\ now = DayMs
  /\ ticks = 0
  /\ connected = {}
  /\ activeIntervals = {}
  /\ userLocations = <<>>
  /\ writtenAt = [u \in Users |-> NoDate]
  /\ alerts = <<>>
  /\ floods = 0
  /\ trips = [t \in TripIds |->
                [userId |-> "u2", status |-> "active", origin |-> 500,
                 lga |-> "Ikeja", alerts |-> <<>>]]
  /\ rides = [r \in RideIds |->
                [createdBy |-> "u1", passengers |-> {"u2"}, driver |-> Undefined,
                 status |-> "pending", pickupLocation |-> 0, lga |-> "Ikeja"]]
  /\ emitted = <<>>
  /\ response = NoResponse
  /\ lastOp = Op("init", Undefined, NoNum, Undefined, NoAlert)
  /\ joined = [s \in EverySocket |-> {}]
  /\ pending = {}
  /\ isOnTrip = [u \in Users |-> u = "u2"]
  /\ emergencyContactNotified = [r \in RideIds |-> FALSE]

(* ---------------- socket gateway ---------------- *)
\* io.on("connection"): handlers registered, rain interval stored
Connect(s) ==
  /\ s \notin connected
  /\ connected' = connected \cup {s}
  /\ activeIntervals' = activeIntervals \cup {s}
  /\ emitted' = <<Join(UserRoom(SocketUser(s)))>>
  /\ response' = NoResponse
  /\ lastOp' = Op("connection", SocketUser(s), NoNum, Undefined, NoAlert)
  /\ joined' = [joined EXCEPT ![s] = {UserRoom(SocketUser(s))}]
  /\ UNCHANGED <<rest, now, ticks, userLocations, writtenAt, alerts, floods, trips, rides>>

\* variant: the handler forgets clearInterval and activeIntervals.delete
DisconnectKeepsInterval(s) ==
  /\ s \in connected
  /\ connected' = connected \ {s}
  /\ userLocations' = MapDelete(userLocations, SocketUser(s))
  /\ writtenAt' = [writtenAt EXCEPT ![SocketUser(s)] = NoDate]
  /\ emitted' = <<>>
  /\ response' = NoResponse
  /\ lastOp' = Op("disconnect", SocketUser(s), NoNum, Undefined, NoAlert)
  /\ joined' = [joined EXCEPT ![s] = {}]
  /\ UNCHANGED <<rest, now, ticks, activeIntervals, alerts, floods, trips, rides>>

\* socket.on("disconnect")
Disconnect(s) ==
  /\ s \in connected
  /\ connected' = connected \ {s}
  /\ activeIntervals' = activeIntervals \ {s}
  /\ userLocations' = MapDelete(userLocations, SocketUser(s))
  /\ writtenAt' = [writtenAt EXCEPT ![SocketUser(s)] = NoDate]
  /\ emitted' = <<>>
  /\ response' = NoResponse
  /\ lastOp' = Op("disconnect", SocketUser(s), NoNum, Undefined, NoAlert)
  /\ joined' = [joined EXCEPT ![s] = {}]
  /\ UNCHANGED <<rest, now, ticks, alerts, floods, trips, rides>>

\* socket.on("update-location") with a payload that passes locationSchema
UpdateLocation(s, latitude, lga) ==
  /\ s \in connected
  /\ LET u == SocketUser(s)
         locs == MapSet(userLocations, u, latitude, lga)
         r == sendProximityAlerts(locs, alerts, trips, rides, latitude, lga, NoAlert, u, now)
     IN /\ userLocations' = locs
        /\ writtenAt' = [writtenAt EXCEPT ![u] = now]
        /\ trips' = r.trips
        /\ emitted' = (IF lga # Undefined THEN <<Join(LgaRoom(lga))>> ELSE <<>>)
                      \o <<Join(LocationRoom(latitude))>>
                      \o r.events
                      \o (IF r.threw
                          THEN <<Event(SocketOnly(s), "error", <<>>, NoNum)>>
                          ELSE <<>>)
        /\ lastOp' = Op("update-location", u, latitude, lga, NoAlert)
  /\ response' = NoResponse
  /\ joined' = [joined EXCEPT ![s] = @ \cup {LocationRoom(latitude)}
                                    \cup (IF lga # Undefined THEN {LgaRoom(lga)} ELSE {})]
  /\ UNCHANGED <<rest, now, ticks, connected, activeIntervals, alerts, floods, rides>>

\* new Alert({...}) of the flood report handler
FloodReportAlert(latitude, severity, lga, t) ==
  [type |-> "flood", severity |-> severity, location |-> latitude,
   distanceTrigger |-> FloodDistanceTrigger, validUntil |-> t + DayMs,
   triggered |-> FALSE, lga |-> lga]

\* socket.on("submit-flood-report") with a payload that passes floodReportSchema
SubmitFloodReport(s, latitude, severity, lga) ==
  /\ s \in connected
  /\ Len(alerts) < MaxAlerts
  /\ floods < MaxFloods
  /\ LET u == SocketUser(s)
         alert == FloodReportAlert(latitude, severity, lga, now)
         id == Len(alerts) + 1
         al == Append(alerts, alert)
         r == sendProximityAlerts(userLocations, al, trips, rides, latitude, lga, id, u, now)
         error == Event(SocketOnly(s), "error", <<>>, NoNum)
     IN /\ floods' = floods + 1
        /\ lastOp' = Op("submit-flood-report", u, latitude, lga, NoAlert)
        /\ IF ~AlertValid(alert)
           THEN \* alert.save() rejects the document after flood.save() went through
                /\ alerts' = alerts
                /\ trips' = trips
                /\ emitted' = <<error>>
           ELSE /\ alerts' = al
                /\ trips' = r.trips
                /\ emitted' =
                     <<Event(LgaRoom(lga), "alertCreated", <<id>>, NoNum)>> \o r.events
                     \o (IF r.threw THEN <<error>>
                         ELSE <<Event(SocketOnly(s), "reportConfirmed", <<id>>, NoNum)>>)
  /\ response' = NoResponse
  /\ UNCHANGED <<rest, joined, now, ticks, connected, activeIntervals, userLocations, writtenAt, rides>>

\* Alert.find of get-nearby-hotspots, .sort({severity: -1}).limit(10)
HotspotQuery(al, lat, radius, lga, t) ==
  SortBySeverityDesc(al,
    {i \in AlertIds(al) :
       /\ Near(al[i], lat, radius)
       /\ al[i].type = "flood"
       /\ ~al[i].triggered
       /\ NotExpired(al[i], t)
       /\ (lga = Undefined \/ al[i].lga = lga)})

\* socket.on("get-nearby-hotspots") with a payload that passes hotspotSchema
GetNearbyHotspots(s, latitude, radius, lga) ==
  /\ s \in connected
  /\ emitted' = <<Event(SocketOnly(s), "nearbyHotspots",
                        HotspotQuery(alerts, latitude, radius, lga, now), NoNum)>>
  /\ response' = NoResponse
  /\ lastOp' = Op("get-nearby-hotspots", SocketUser(s), latitude, lga, NoAlert)
  /\ UNCHANGED <<rest, joined, now, ticks, connected, activeIntervals, userLocations, writtenAt,
                 alerts, floods, trips, rides>>

(* ---------------- clock and stale-location sweep ---------------- *)
Tick(d) ==
  /\ ticks < MaxTicks
  /\ now' = now + d
  /\ ticks' = ticks + 1
  /\ emitted' = <<>>
  /\ response' = NoResponse
  /\ lastOp' = Op("tick", Undefined, NoNum, Undefined, NoAlert)
  /\ UNCHANGED <<rest, joined, connected, activeIntervals, userLocations, writtenAt,
                 alerts, floods, trips, rides>>

\* location.lastUpdated of a stored entry: update-location stores
\* {latitude, longitude, lga} only, so the property is undefined
LastUpdated(location) ==
  IF "lastUpdated" \in DOMAIN location THEN location.lastUpdated ELSE NoDate

\* variant: the test with && in place of !...||
IsStaleOnlyWhenStamped(location, threshold) ==
  LastUpdated(location) # NoDate /\ LastUpdated(location) < threshold

\* !location.lastUpdated || location.lastUpdated < threshold
IsStale(location, threshold) ==
  LastUpdated(location) = NoDate \/ LastUpdated(location) < threshold

\* the setInterval callback that cleans up stale user locations
Sweep ==
  /\ LET threshold == now - StaleMs
         kept == SelectSeq(userLocations, LAMBDA e : ~IsStale(e, threshold))
     IN /\ userLocations' = kept
        /\ writtenAt' = [u \in Users |-> IF HasLocation(kept, u) THEN writtenAt[u] ELSE NoDate]
  /\ emitted' = <<>>
  /\ response' = NoResponse
  /\ lastOp' = OpWith("sweep", Undefined, NoNum, Undefined, NoAlert,
                      {Pair(userLocations[i].userId, now - writtenAt[userLocations[i].userId]) :
                         i \in {j \in 1..Len(userLocations) :
                                  IsStale(userLocations[j], now - StaleMs)}})
  /\ UNCHANGED <<rest, joined, now, ticks, connected, activeIntervals, alerts, floods, trips, rides>>

(* ---------------- alert controllers (HTTP) ---------------- *)
Everyone == <<"all", "*">>
Respond(status, ids) == [status |-> status, alerts |-> ids]

\* new Alert({...}) of createAlert, with the schema defaults filled in
CreatedAlert(body) ==
  [type |-> body.type,
   severity |-> IF body.severity = Undefined THEN "low" ELSE body.severity,
   location |-> body.location,
   distanceTrigger |-> IF body.distanceTrigger = NoNum
                       THEN DefaultDistanceTrigger ELSE body.distanceTrigger,
   validUntil |-> body.validUntil,
   triggered |-> FALSE,
   lga |-> body.lga]

\* POST /alerts with a body that passes alertSchema
createAlert(user, admin, body) ==
  /\ Len(alerts) < MaxAlerts
  /\ lastOp' = Op("createAlert", user, body.location, body.lga, NoAlert)
  /\ IF ~admin
     THEN /\ response' = Respond(403, <<>>)
          /\ emitted' = <<>>
          /\ alerts' = alerts
     ELSE /\ alerts' = Append(alerts, CreatedAlert(body))
          /\ emitted' = <<Event(LgaRoom(body.lga), "alertCreated", <<Len(alerts) + 1>>, NoNum)>>
          /\ response' = Respond(201, <<Len(alerts) + 1>>)
  /\ UNCHANGED <<rest, joined, now, ticks, connected, activeIntervals, userLocations, writtenAt,
                 floods, trips, rides>>

\* variant: the update keeps the higher of the stored and the given severity
UpdatedSeverityKeepHigher(current, given) ==
  IF given # Undefined /\ SeverityRank(given) >= SeverityRank(current) THEN given ELSE current

\* if (severity) alert.severity = severity
UpdatedSeverity(current, given) == IF given # Undefined THEN given ELSE current

\* if (triggered !== undefined) alert.triggered = triggered
UpdatedTriggered(current, given, value) == IF given THEN value ELSE current

\* PUT /alerts/:id of alertController.js; body carries severity and/or triggered
updateAlert(user, id, severity, triggeredGiven, triggered) ==
  /\ lastOp' = OpWith("updateAlert", user, NoNum, Undefined, id,
                      {Pair("severity", SeverityRank(severity))}
                      \cup (IF triggeredGiven
                            THEN {Pair("triggered", IF triggered THEN 1 ELSE 0)} ELSE {})
                      \cup (IF id \in AlertIds(alerts)
                            THEN {Pair("previous", SeverityRank(alerts[id].severity))} ELSE {}))
  /\ IF id \notin AlertIds(alerts)
     THEN /\ response' = Respond(404, <<>>)
          /\ emitted' = <<>>
          /\ alerts' = alerts
     ELSE /\ alerts' = [alerts EXCEPT
                          ![id].severity = UpdatedSeverity(@, severity),
                          ![id].triggered = UpdatedTriggered(@, triggeredGiven, triggered)]
          /\ emitted' = <<Event(Everyone, "alert-updated", <<id>>, NoNum)>>
          /\ response' = Respond(200, <<id>>)
  /\ UNCHANGED <<rest, joined, now, ticks, connected, activeIntervals, userLocations, writtenAt,
                 floods, trips, rides>>

\* Object.assign(alert, parsedBody) for a body {severity?}; alertSchema.partial()
\* has no key "triggered", so zod strips it from the body
AssignedSeverity(current, given) == IF given # Undefined THEN given ELSE current

\* PUT /alerts/:id of the admin-token controller
updateAlertAdmin(user, admin, id, severity) ==
  /\ lastOp' = OpWith("updateAlertAdmin", user, NoNum, Undefined, id,
                      {Pair("severity", SeverityRank(severity))}
                      \cup (IF id \in AlertIds(alerts)
                            THEN {Pair("previous", SeverityRank(alerts[id].severity))} ELSE {}))
  /\ IF ~admin
     THEN /\ response' = Respond(403, <<>>)
          /\ emitted' = <<>>
          /\ alerts' = alerts
     ELSE IF id \notin AlertIds(alerts)
     THEN /\ response' = Respond(404, <<>>)
          /\ emitted' = <<>>
          /\ alerts' = alerts
     ELSE /\ alerts' = [alerts EXCEPT ![id].severity = AssignedSeverity(@, severity)]
          /\ emitted' = <<Event(LgaRoom(alerts[id].lga), "alertUpdated", <<id>>, NoNum)>>
          /\ response' = Respond(200, <<id>>)
  /\ UNCHANGED <<rest, joined, now, ticks, connected, activeIntervals, userLocations, writtenAt,
                 floods, trips, rides>>

\* Alert.find of getAlertsNearLocation in alertController.js
NearQuery(al, lat, distance) ==
  SortBySeverityDesc(al,
    {i \in AlertIds(al) : Near(al[i], lat, distance) /\ ~al[i].triggered})

\* GET /alerts/near of alertController.js
getAlertsNearLocation(lat, distance) ==
  /\ response' = Respond(200, NearQuery(alerts, lat, distance))
  /\ emitted' = <<>>
  /\ lastOp' = Op("getAlertsNearLocation", Undefined, lat, Undefined, NoAlert)
  /\ UNCHANGED <<rest, joined, now, ticks, connected, activeIntervals, userLocations, writtenAt,
                 alerts, floods, trips, rides>>

\* Alert.find of getAlertsNearLocation in the admin-token controller
NearQueryValid(al, lat, distance, t) ==
  SortBySeverityDesc(al,
    {i \in AlertIds(al) :
       Near(al[i], lat, distance) /\ ~al[i].triggered /\ NotExpired(al[i], t)})

\* GET /alerts/near of the admin-token controller
getAlertsNearLocationValid(lat, distance) ==
  /\ response' = Respond(200, NearQueryValid(alerts, lat, distance, now))
  /\ emitted' = <<>>
  /\ lastOp' = Op("getAlertsNearLocationValid", Undefined, lat, Undefined, NoAlert)
  /\ UNCHANGED <<rest, joined, now, ticks, connected, activeIntervals, userLocations, writtenAt,
                 alerts, floods, trips, rides>>

\* variant: the query without its triggered: false condition
CheckQueryAnyTriggered(al, lat, t) ==
  SortBySeverityDesc(al,
    {i \in AlertIds(al) :
       /\ Near(al[i], lat, ProximityMaxDistance)
       /\ NotExpired(al[i], t)})

\* Alert.find of checkTripAlerts / checkRideAlerts
CheckQuery(al, lat, t) ==
  SortBySeverityDesc(al,
    {i \in AlertIds(al) :
       /\ Near(al[i], lat, ProximityMaxDistance)
       /\ ~al[i].triggered
       /\ NotExpired(al[i], t)})

\* if (distance <= alert.distanceTrigger)
ShouldTrigger(a, lat) == CalculateDistance(lat, a.location) <= a.distanceTrigger

\* the alerts the for-loop marks triggered, in query order
TriggeredAlerts(al, lat, t) ==
  SelectSeq(CheckQuery(al, lat, t), LAMBDA i : ShouldTrigger(al[i], lat))

\* alert.triggered = true; await alert.save() for each of them
MarkTriggered(al, ids) ==
  [i \in 1..Len(al) |-> IF i \in Range(ids) THEN [al[i] EXCEPT !.triggered = TRUE] ELSE al[i]]

\* POST /alerts/trip/:tripId/check
checkTripAlerts(user, admin, tripId) ==
  /\ lastOp' = Op("checkTripAlerts", user, trips[tripId].origin, Undefined, NoAlert)
  /\ IF trips[tripId].userId # user /\ ~admin
     THEN /\ response' = Respond(403, <<>>)
          /\ emitted' = <<>>
          /\ UNCHANGED <<alerts, trips>>
     ELSE LET lat == trips[tripId].origin
              hit == TriggeredAlerts(alerts, lat, now)
              pushed == [i \in 1..Len(hit) |->
                           [type |-> alerts[hit[i]].type, severity |-> alerts[hit[i]].severity]]
              trip == [trips[tripId] EXCEPT !.alerts = @ \o pushed]
          IN /\ alerts' = MarkTriggered(alerts, hit)
             /\ IF TripValid(trip)
                THEN /\ trips' = [trips EXCEPT ![tripId] = trip]
                     /\ emitted' = <<Event(UserRoom(user), "tripAlerts", hit, NoNum),
                                     Event(LgaRoom(trip.lga), "tripAlerts", hit, NoNum)>>
                     /\ response' = Respond(200, hit)
                ELSE \* trip.save() rejects a pushed entry: caught, answered 500
                     /\ trips' = trips
                     /\ emitted' = <<>>
                     /\ response' = Respond(500, <<>>)
  /\ UNCHANGED <<rest, joined, now, ticks, connected, activeIntervals, userLocations, writtenAt,
                 floods, rides>>

\* POST /alerts/ride/:rideId/check
checkRideAlerts(user, admin, rideId) ==
  /\ lastOp' = Op("checkRideAlerts", user, rides[rideId].pickupLocation, Undefined, NoAlert)
  /\ LET ride == rides[rideId]
         isParticipant == \/ ride.createdBy = user
                          \/ user \in ride.passengers
                          \/ ride.driver = user
                          \/ admin
         hit == TriggeredAlerts(alerts, ride.pickupLocation, now)
     IN IF ~isParticipant
        THEN /\ response' = Respond(403, <<>>)
             /\ emitted' = <<>>
             /\ alerts' = alerts
        ELSE /\ alerts' = MarkTriggered(alerts, hit)
             /\ emitted' = <<Event(RideRoom(rideId), "rideAlerts", hit, NoNum),
                             Event(LgaRoom(ride.lga), "rideAlerts", hit, NoNum)>>
             /\ response' = Respond(200, hit)
  /\ UNCHANGED <<rest, joined, now, ticks, connected, activeIntervals, userLocations, writtenAt,
                 floods, trips, rides>>

(* ---------------- handlers suspended at an await ---------------- *)
\* socket.on("update-location") up to the await of Alert.find inside
\* sendProximityAlerts: the position is stored, the rooms are joined and the
\* query is on its way; its result is what the store holds at that moment
UpdateLocationBegin(req, s, latitude, lga) ==
  /\ s \in connected
  /\ \A p \in pending : p.req # req
  /\ LET u == SocketUser(s)
         found == AlertData(alerts, latitude, lga, NoAlert, now)
     IN /\ userLocations' = MapSet(userLocations, u, latitude, lga)
        /\ writtenAt' = [writtenAt EXCEPT ![u] = now]
        /\ pending' = pending \cup
             {Suspended("update-location", req, u, s, latitude, lga,
                        IF found = NoAlert THEN <<>> ELSE <<found>>)}
        /\ lastOp' = OpWith("update-location", u, latitude, lga, NoAlert,
                            {Pair("suspended", 1)})
  /\ emitted' = (IF lga # Undefined THEN <<Join(LgaRoom(lga))>> ELSE <<>>)
                \o <<Join(LocationRoom(latitude))>>
  /\ response' = NoResponse
  /\ joined' = [joined EXCEPT ![s] = @ \cup {LocationRoom(latitude)}
                                    \cup (IF lga # Undefined THEN {LgaRoom(lga)} ELSE {})]
  /\ UNCHANGED <<isOnTrip, emergencyContactNotified, now, ticks, connected,
                 activeIntervals, alerts, floods, trips, rides>>

\* the rest of the handler once Alert.find has answered: the loop over the
\* userLocations of that moment with the coordinates and the query result of
\* the suspended call
UpdateLocationDeliver(req) ==
  \E p \in pending :
    /\ p.kind = "update-location"
    /\ p.req = req
    /\ pending' = pending \ {p}
    /\ LET r == SendLoop(1, [events |-> <<>>, trips |-> trips, threw |-> FALSE],
                         userLocations, alerts, rides, p.lat, p.lga,
                         IF p.ids = <<>> THEN NoAlert ELSE p.ids[1], p.user)
       IN /\ trips' = r.trips
          /\ emitted' = r.events
                        \o (IF r.threw /\ p.target \in connected
                            THEN <<Event(SocketOnly(p.target), "error", <<>>, NoNum)>>
                            ELSE <<>>)
    /\ lastOp' = OpWith("update-location", p.user, p.lat, p.lga, NoAlert,
                        {Pair("resumed", 1)})
    /\ response' = NoResponse
    /\ UNCHANGED <<isOnTrip, emergencyContactNotified, joined, now, ticks, connected,
                   activeIntervals, userLocations, writtenAt, alerts, floods, rides>>

\* POST /alerts/ride/:rideId/check up to the await of Alert.find
checkRideAlertsFind(req, user, admin, rideId) ==
  /\ \A p \in pending : p.req # req
  /\ lastOp' = Op("checkRideAlerts", user, rides[rideId].pickupLocation, Undefined, NoAlert)
  /\ emitted' = <<>>
  /\ LET ride == rides[rideId]
         isParticipant == \/ ride.createdBy = user
                          \/ user \in ride.passengers
                          \/ ride.driver = user
                          \/ admin
     IN IF ~isParticipant
        THEN /\ response' = Respond(403, <<>>)
             /\ pending' = pending
        ELSE /\ response' = NoResponse
             /\ pending' = pending \cup
                  {Suspended("checkRideAlerts", req, user, rideId, ride.pickupLocation,
                             ride.lga, CheckQuery(alerts, ride.pickupLocation, now))}
  /\ UNCHANGED <<isOnTrip, emergencyContactNotified, joined, now, ticks, connected,
                 activeIntervals, userLocations, writtenAt, alerts, floods, trips, rides>>

\* the for-loop over the documents the query returned, the emits and the
\* response: alert.triggered = true and alert.save() on each document in range
checkRideAlertsTrigger(req) ==
  \E p \in pending :
    /\ p.kind = "checkRideAlerts"
    /\ p.req = req
    /\ pending' = pending \ {p}
    /\ LET hit == SelectSeq(p.ids, LAMBDA i : ShouldTrigger(alerts[i], p.lat))
       IN /\ alerts' = MarkTriggered(alerts, hit)
          /\ emitted' = <<Event(RideRoom(p.target), "rideAlerts", hit, NoNum),
                          Event(LgaRoom(p.lga), "rideAlerts", hit, NoNum)>>
          /\ response' = Respond(200, hit)
    /\ lastOp' = OpWith("checkRideAlerts", p.user, p.lat, Undefined, NoAlert,
                        {Pair("resumed", 1)})
    /\ UNCHANGED <<isOnTrip, emergencyContactNotified, joined, now, ticks, connected,
                   activeIntervals, userLocations, writtenAt, floods, trips, rides>>

(* ---------------- handshake and payload validation ---------------- *)
\* sockets that present no token (s3) or a token jwt.verify rejects (s4)
UnauthenticatedSockets == {"s3", "s4"}
AllSockets == Sockets \cup UnauthenticatedSockets

\* socket.handshake.auth.token
Token(s) == IF s = "s3" THEN Undefined ELSE IF s = "s4" THEN "invalid" ELSE "valid"

\* variant: without the if (!token) test, a missing token fails in jwt.verify
socketAuthenticateNoMissingTest(token) ==
  IF token = "valid" THEN "ok" ELSE "Invalid token"

\* the Error passed to next(), "ok" for next() without argument
socketAuthenticate(token) ==
  IF token = Undefined THEN "No token provided"
  ELSE IF token = "valid" THEN "ok"
  ELSE "Invalid token"

\* next(new Error(reason)): socket.io refuses the connection with connect_error
RejectConnection(s, reason) ==
  /\ s \notin connected
  /\ emitted' = <<Event(SocketOnly(s), "connect_error", <<>>, NoNum)>>
  /\ response' = NoResponse
  /\ lastOp' = OpWith("handshake", Undefined, NoNum, Undefined, NoAlert, {Pair(reason, 1)})
  /\ UNCHANGED <<rest, joined, now, ticks, connected, activeIntervals, userLocations, writtenAt,
                 alerts, floods, trips, rides>>

\* io.use(socketAuthenticate) in front of io.on("connection")
Handshake(s) ==
  IF socketAuthenticate(Token(s)) = "ok"
  THEN Connect(s)
  ELSE RejectConnection(s, socketAuthenticate(Token(s)))

\* variant: latitude made optional in the schema
locationSchemaLatitudeOptional(latitude) == TRUE

\* locationSchema.parse(data) goes through; NoNum stands for a latitude that
\* is missing or not a number
locationSchema(latitude) == latitude # NoNum

\* floodReportSchema.parse(data) goes through
floodReportSchema(latitude, severity, lga) ==
  /\ latitude # NoNum
  /\ severity \in {"low", "moderate", "high"}
  /\ lga # Undefined

\* hotspotSchema.parse(data) goes through
hotspotSchema(latitude) == latitude # NoNum

\* the inline z.object of admin-broadcast goes through
adminBroadcastSchema(severity, lga, adminToken) ==
  /\ severity \in Severities \cup {Undefined}
  /\ lga # Undefined
  /\ adminToken # Undefined

\* the catch block of a socket handler after a ZodError
HandlerError(s, name, latitude, lga) ==
  /\ s \in connected
  /\ emitted' = <<Event(SocketOnly(s), "error", <<>>, NoNum)>>
  /\ response' = NoResponse
  /\ lastOp' = Op(name, SocketUser(s), latitude, lga, NoAlert)
  /\ UNCHANGED <<rest, joined, now, ticks, connected, activeIntervals, userLocations, writtenAt,
                 alerts, floods, trips, rides>>

\* socket.on("update-location") with any payload
OnUpdateLocation(s, latitude, lga) ==
  IF locationSchema(latitude)
  THEN UpdateLocation(s, latitude, lga)
  ELSE HandlerError(s, "update-location", latitude, lga)

\* socket.on("submit-flood-report") with any payload
OnSubmitFloodReport(s, latitude, severity, lga) ==
  IF floodReportSchema(latitude, severity, lga)
  THEN SubmitFloodReport(s, latitude, severity, lga)
  ELSE HandlerError(s, "submit-flood-report", latitude, lga)

\* socket.on("get-nearby-hotspots") with any payload
OnGetNearbyHotspots(s, latitude, radius, lga) ==
  IF hotspotSchema(latitude)
  THEN GetNearbyHotspots(s, latitude, radius, lga)
  ELSE HandlerError(s, "get-nearby-hotspots", latitude, lga)

\* socket.on("update-location") when Alert.find of sendProximityAlerts rejects
\* (alert store unavailable): the exception reaches the handler's catch
UpdateLocationQueryFails(s, latitude, lga) ==
  /\ s \in connected
  /\ userLocations' = MapSet(userLocations, SocketUser(s), latitude, lga)
  /\ writtenAt' = [writtenAt EXCEPT ![SocketUser(s)] = now]
  /\ emitted' = (IF lga # Undefined THEN <<Join(LgaRoom(lga))>> ELSE <<>>)
                \o <<Join(LocationRoom(latitude)),
                     Event(SocketOnly(s), "error", <<>>, NoNum)>>
  /\ response' = NoResponse
  /\ lastOp' = OpWith("update-location", SocketUser(s), latitude, lga, NoAlert,
                      {Pair("alertQueryFailed", 1)})
  /\ joined' = [joined EXCEPT ![s] = @ \cup {LocationRoom(latitude)}
                                    \cup (IF lga # Undefined THEN {LgaRoom(lga)} ELSE {})]
  /\ UNCHANGED <<rest, now, ticks, connected, activeIntervals, alerts, floods, trips, rides>>

(* ---------------- admin-broadcast and the rain interval ---------------- *)
\* variant: the event is emitted before the save is awaited
AnnounceBeforeSave(saved, room, id) ==
  <<Event(room, "alertCreated", <<id>>, NoNum)>>

\* await alert.save(); io.to(room).emit("alertCreated", ...): a save that
\* rejects skips the emit
Announce(saved, room, id) ==
  IF saved THEN <<Event(room, "alertCreated", <<id>>, NoNum)>> ELSE <<>>

\* new Alert({...}) of admin-broadcast
BroadcastAlert(severity, lga, t) ==
  [type |-> "route", severity |-> IF severity = Undefined THEN "medium" ELSE severity,
   location |-> 0, distanceTrigger |-> BroadcastDistanceTrigger,
   validUntil |-> t + DayMs, triggered |-> FALSE, lga |-> lga]

\* socket.on("admin-broadcast") with a payload that passes its schema;
\* saved tells whether alert.save() resolves
AdminBroadcast(s, severity, lga, adminToken, saved) ==
  /\ s \in connected
  /\ Len(alerts) < MaxAlerts
  /\ lastOp' = Op("admin-broadcast", SocketUser(s), 0, lga, NoAlert)
  /\ response' = NoResponse
  /\ IF adminToken # "admin"
     THEN /\ emitted' = <<Event(SocketOnly(s), "error", <<>>, NoNum)>>
          /\ alerts' = alerts
     ELSE /\ alerts' = IF saved THEN Append(alerts, BroadcastAlert(severity, lga, now))
                       ELSE alerts
          /\ emitted' = Announce(saved, LgaRoom(lga), Len(alerts) + 1)
                        \o (IF saved THEN <<>>
                            ELSE <<Event(SocketOnly(s), "error", <<>>, NoNum)>>)
  /\ UNCHANGED <<rest, joined, now, ticks, connected, activeIntervals, userLocations, writtenAt,
                 floods, trips, rides>>

\* socket.on("admin-broadcast") with any payload
OnAdminBroadcast(s, severity, lga, adminToken, saved) ==
  IF adminBroadcastSchema(severity, lga, adminToken)
  THEN AdminBroadcast(s, severity, lga, adminToken, saved)
  ELSE HandlerError(s, "admin-broadcast", 0, lga)

\* lga || "Lagos Mainland"
LgaOrDefault(lga) == IF lga = Undefined THEN "Lagos Mainland" ELSE lga

\* new Alert({...}) of the rain interval
RainAlert(location, rain, t) ==
  [type |-> "weather", severity |-> IF rain > 5 THEN "high" ELSE "medium",
   location |-> location.latitude, distanceTrigger |-> FloodDistanceTrigger,
   validUntil |-> t + ThreeHoursMs, triggered |-> FALSE,
   lga |-> LgaOrDefault(location.lga)]

\* the setInterval callback of a connection; rain is forecast.rain["3h"] in
\* millimetres, saved tells whether dbAlert.save() resolves
rainInterval(s, rain, saved) ==
  /\ s \in activeIntervals
  /\ lastOp' = Op("rain-interval", SocketUser(s), NoNum, Undefined, NoAlert)
  /\ response' = NoResponse
  /\ IF ~HasLocation(userLocations, SocketUser(s)) \/ rain <= 1
     THEN /\ emitted' = <<>>
          /\ alerts' = alerts
     ELSE /\ Len(alerts) < MaxAlerts
          /\ LET location == GetLocation(userLocations, SocketUser(s))
             IN /\ alerts' = IF saved THEN Append(alerts, RainAlert(location, rain, now))
                             ELSE alerts
                /\ emitted' = <<Event(SocketOnly(s), "rainAlertUpdate", <<>>, NoNum)>>
                              \o Announce(saved, LgaRoom(LgaOrDefault(location.lga)),
                                          Len(alerts) + 1)
  /\ UNCHANGED <<rest, joined, now, ticks, connected, activeIntervals, userLocations, writtenAt,
                 floods, trips, rides>>

\* the rain interval callback up to await axios.get: the timer fired for a
\* socket that still holds its interval, the user's location was read
rainIntervalFetch(s) ==
  /\ s \in activeIntervals
  /\ \A p \in pending : p.req # s
  /\ lastOp' = Op("rain-interval", SocketUser(s), NoNum, Undefined, NoAlert)
  /\ response' = NoResponse
  /\ emitted' = <<>>
  /\ pending' = IF ~HasLocation(userLocations, SocketUser(s)) THEN pending
                ELSE LET location == GetLocation(userLocations, SocketUser(s))
                     IN pending \cup
                          {Suspended("rain-interval", s, SocketUser(s), s,
                                     location.latitude, location.lga, <<>>)}
  /\ UNCHANGED <<isOnTrip, emergencyContactNotified, joined, now, ticks, connected,
                 activeIntervals, userLocations, writtenAt, alerts, floods, trips, rides>>

\* the callback after the forecast arrived: socket.emit reaches the client
\* only while the socket is connected; the Alert is saved and announced with
\* the location read before the fetch
rainIntervalResume(s, rain, saved) ==
  \E p \in pending :
    /\ p.kind = "rain-interval"
    /\ p.req = s
    /\ pending' = pending \ {p}
    /\ lastOp' = OpWith("rain-interval", p.user, NoNum, Undefined, NoAlert,
                        {Pair("resumed", 1)})
    /\ response' = NoResponse
    /\ IF rain <= 1
       THEN /\ emitted' = <<>>
            /\ alerts' = alerts
       ELSE /\ Len(alerts) < MaxAlerts
            /\ LET location == [latitude |-> p.lat, lga |-> p.lga]
               IN /\ alerts' = IF saved THEN Append(alerts, RainAlert(location, rain, now))
                               ELSE alerts
                  /\ emitted' = (IF s \in connected
                                 THEN <<Event(SocketOnly(s), "rainAlertUpdate", <<>>, NoNum)>>
                                 ELSE <<>>)
                                \o Announce(saved, LgaRoom(LgaOrDefault(p.lga)),
                                            Len(alerts) + 1)
    /\ UNCHANGED <<isOnTrip, emergencyContactNotified, joined, now, ticks, connected,
                   activeIntervals, userLocations, writtenAt, floods, trips, rides>>

(* ---------------- alerts generated from weather and flood records ---------------- *)
\* new Alert({...}) of generateWeatherFloodAlerts for a record of the given
\* kind ("weather" or "flood") with high risk
GeneratedAlert(kind, location, lga, t) ==
  [type |-> kind, severity |-> "high", location |-> location,
   distanceTrigger |-> FloodDistanceTrigger, validUntil |-> t + DayMs,
   triggered |-> FALSE, lga |-> lga]

\* the exported controller: weatherHigh and floodHigh are the numbers of Weather
\* and Flood records of the lga with high risk in the last 24 hours; saved is
\* whether alert.save() goes through
generateWeatherFloodAlerts(user, adminToken, lga, weatherHigh, floodHigh, saved) ==
  /\ Len(alerts) + weatherHigh + floodHigh <= MaxAlerts
  /\ lastOp' = OpWith("generateWeatherFloodAlerts", user, NoNum, lga, NoAlert,
                      {Pair("weatherHigh", weatherHigh), Pair("floodHigh", floodHigh)})
  /\ LET new == [i \in 1..(weatherHigh + floodHigh) |->
                   GeneratedAlert(IF i <= weatherHigh THEN "weather" ELSE "flood",
                                  0, lga, now)]
         ids == [i \in 1..Len(new) |-> Len(alerts) + i]
     IN IF adminToken # "admin"
        THEN /\ response' = Respond(403, <<>>)
             /\ emitted' = <<>>
             /\ alerts' = alerts
        ELSE IF lga = Undefined
        THEN /\ response' = Respond(400, <<>>)
             /\ emitted' = <<>>
             /\ alerts' = alerts
        ELSE IF ~saved /\ new # <<>>
        THEN /\ response' = Respond(500, <<>>)
             /\ emitted' = <<>>
             /\ alerts' = alerts
        ELSE /\ alerts' = alerts \o new
             /\ emitted' = [i \in 1..Len(new) |->
                              Event(LgaRoom(lga), "alertCreated", <<ids[i]>>, NoNum)]
             /\ response' = Respond(200, ids)
  /\ UNCHANGED <<rest, joined, now, ticks, connected, activeIntervals, userLocations, writtenAt,
                 floods, trips, rides>>

(* ---------------- ride controller ---------------- *)
\* createdBy, driver and passengers of a ride
Participants(ride) ==
  {ride.createdBy} \cup ride.passengers
  \cup (IF ride.driver # Undefined THEN {ride.driver} ELSE {})

\* POST /rides/:id/start
startRide(user, admin, rideId) ==
  /\ lastOp' = Op("startRide", user, NoNum, Undefined, NoAlert)
  /\ LET ride == rides[rideId]
         forbidden == /\ ride.createdBy # user
                      /\ (ride.driver # Undefined /\ ride.driver # user)
                      /\ ~admin
     IN IF forbidden
        THEN /\ response' = Respond(403, <<>>)
             /\ emitted' = <<>>
             /\ UNCHANGED <<rides, isOnTrip>>
        ELSE IF ride.status \in {"active", "completed"}
        THEN /\ response' = Respond(400, <<>>)
             /\ emitted' = <<>>
             /\ UNCHANGED <<rides, isOnTrip>>
        ELSE /\ rides' = [rides EXCEPT ![rideId].status = "active"]
             /\ isOnTrip' = [u \in Users |-> u \in Participants(ride) \/ isOnTrip[u]]
             /\ emitted' = <<Event(RideRoom(rideId), "ride-started", <<>>, NoNum)>>
             /\ response' = Respond(200, <<>>)
  /\ UNCHANGED <<pending, emergencyContactNotified, joined, now, ticks, connected,
                 activeIntervals, userLocations, writtenAt, alerts, floods, trips>>

\* the two status tests of completeRide that answer 400
completeRideRefuses(status) == status \in {"completed", "pending"}

\* POST /rides/:id/complete
completeRide(user, rideId) ==
  /\ lastOp' = Op("completeRide", user, NoNum, Undefined, NoAlert)
  /\ LET ride == rides[rideId]
         forbidden == /\ ride.createdBy # user
                      /\ (ride.driver = Undefined \/ ride.driver # user)
     IN IF forbidden
        THEN /\ response' = Respond(403, <<>>)
             /\ emitted' = <<>>
             /\ UNCHANGED <<rides, isOnTrip>>
        ELSE IF completeRideRefuses(ride.status)
        THEN /\ response' = Respond(400, <<>>)
             /\ emitted' = <<>>
             /\ UNCHANGED <<rides, isOnTrip>>
        ELSE /\ rides' = [rides EXCEPT ![rideId].status = "completed"]
             /\ isOnTrip' = [u \in Users |-> u \notin Participants(ride) /\ isOnTrip[u]]
             /\ emitted' = <<Event(RideRoom(rideId), "rideCompleted", <<>>, NoNum)>>
             /\ response' = Respond(200, <<>>)
  /\ UNCHANGED <<pending, emergencyContactNotified, joined, now, ticks, connected,
                 activeIntervals, userLocations, writtenAt, alerts, floods, trips>>

\* POST /rides/:id/cancel
cancelRide(user, rideId) ==
  /\ lastOp' = Op("cancelRide", user, NoNum, Undefined, NoAlert)
  /\ LET ride == rides[rideId]
         forbidden == /\ ride.createdBy # user
                      /\ (ride.driver = Undefined \/ ride.driver # user)
     IN IF forbidden
        THEN /\ response' = Respond(403, <<>>)
             /\ emitted' = <<>>
             /\ rides' = rides
        ELSE IF ride.status \in {"completed", "cancelled"}
        THEN /\ response' = Respond(400, <<>>)
             /\ emitted' = <<>>
             /\ rides' = rides
        ELSE /\ rides' = [rides EXCEPT ![rideId].status = "cancelled"]
             /\ emitted' = <<Event(RideRoom(rideId), "rideCancelled", <<>>, NoNum)>>
             /\ response' = Respond(200, <<>>)
  /\ UNCHANGED <<rest, joined, now, ticks, connected, activeIntervals, userLocations,
                 writtenAt, alerts, floods, trips>>

\* POST /rides/:id/emergency up to its second await (User.findById): the
\* ride document has been read and its flag tested
triggerEmergencyAlertFind(req, user, rideId) ==
  /\ \A p \in pending : p.req # req
  /\ lastOp' = Op("triggerEmergencyAlert", user, NoNum, Undefined, NoAlert)
  /\ emitted' = <<>>
  /\ IF user \notin Participants(rides[rideId])
     THEN /\ response' = Respond(403, <<>>)
          /\ pending' = pending
     ELSE IF emergencyContactNotified[rideId]
     THEN /\ response' = Respond(400, <<>>)
          /\ pending' = pending
     ELSE /\ response' = NoResponse
          /\ pending' = pending \cup
               {Suspended("triggerEmergencyAlert", req, user, rideId, NoNum, Undefined, <<>>)}
  /\ UNCHANGED <<isOnTrip, emergencyContactNotified, joined, now, ticks, connected,
                 activeIntervals, userLocations, writtenAt, alerts, floods, trips, rides>>

\* the rest of the request: ride.emergencyContactNotified = true,
\* await ride.save(), emit, respond
triggerEmergencyAlertSave(req) ==
  \E p \in pending :
    /\ p.kind = "triggerEmergencyAlert"
    /\ p.req = req
    /\ pending' = pending \ {p}
    /\ emergencyContactNotified' = [emergencyContactNotified EXCEPT ![p.target] = TRUE]
    /\ emitted' = <<Event(RideRoom(p.target), "emergencyAlert", <<>>, NoNum)>>
    /\ response' = Respond(200, <<>>)
    /\ lastOp' = OpWith("triggerEmergencyAlert", p.user, NoNum, Undefined, NoAlert,
                        {Pair("notifiedBefore", IF emergencyContactNotified[p.target]
                                                THEN 1 ELSE 0)})
    /\ UNCHANGED <<isOnTrip, joined, now, ticks, connected, activeIntervals,
                   userLocations, writtenAt, alerts, floods, trips, rides>>

\* POST /rides/:id/emergency/reset
resetEmergencyNotification(user, rideId) ==
  /\ lastOp' = Op("resetEmergencyNotification", user, NoNum, Undefined, NoAlert)
  /\ IF rides[rideId].createdBy # user
     THEN /\ response' = Respond(403, <<>>)
          /\ emitted' = <<>>
          /\ emergencyContactNotified' = emergencyContactNotified
     ELSE /\ emergencyContactNotified' = [emergencyContactNotified EXCEPT ![rideId] = FALSE]
          /\ emitted' = <<Event(RideRoom(rideId), "emergencyReset", <<>>, NoNum)>>
          /\ response' = Respond(200, <<>>)
  /\ UNCHANGED <<pending, isOnTrip, joined, now, ticks, connected, activeIntervals,
                 userLocations, writtenAt, alerts, floods, trips, rides>>

(* ---------------- trip controller ---------------- *)
\* POST /trips/:id/start
startTrip(user, tripId) ==
  /\ lastOp' = Op("startTrip", user, NoNum, Undefined, NoAlert)
  /\ IF trips[tripId].userId # user
     THEN /\ response' = Respond(403, <<>>)
          /\ emitted' = <<>>
          /\ UNCHANGED <<trips, isOnTrip>>
     ELSE IF trips[tripId].status \in {"active", "completed"}
     THEN /\ response' = Respond(400, <<>>)
          /\ emitted' = <<>>
          /\ UNCHANGED <<trips, isOnTrip>>
     ELSE /\ trips' = [trips EXCEPT ![tripId].status = "active"]
          /\ isOnTrip' = [isOnTrip EXCEPT ![user] = TRUE]
          /\ emitted' = <<Event(UserRoom(user), "tripStarted", <<>>, NoNum)>>
          /\ response' = Respond(200, <<>>)
  /\ UNCHANGED <<pending, emergencyContactNotified, joined, now, ticks, connected,
                 activeIntervals, userLocations, writtenAt, alerts, floods, rides>>

\* POST /trips/:id/complete
completeTrip(user, tripId) ==
  /\ lastOp' = Op("completeTrip", user, NoNum, Undefined, NoAlert)
  /\ IF trips[tripId].userId # user
     THEN /\ response' = Respond(403, <<>>)
          /\ emitted' = <<>>
          /\ UNCHANGED <<trips, isOnTrip>>
     ELSE IF trips[tripId].status \in {"completed", "planned"}
     THEN /\ response' = Respond(400, <<>>)
          /\ emitted' = <<>>
          /\ UNCHANGED <<trips, isOnTrip>>
     ELSE /\ trips' = [trips EXCEPT ![tripId].status = "completed"]
          /\ isOnTrip' = [isOnTrip EXCEPT ![user] = FALSE]
          /\ emitted' = <<Event(UserRoom(user), "tripCompleted", <<>>, NoNum)>>
          /\ response' = Respond(200, <<>>)
  /\ UNCHANGED <<pending, emergencyContactNotified, joined, now, ticks, connected,
                 activeIntervals, userLocations, writtenAt, alerts, floods, rides>>

\* if (trip.status === "active"), evaluated on the document after
\* trip.status = "cancelled"
cancelTripClearsFlag(status) == status = "active"

\* POST /trips/:id/cancel
cancelTrip(user, tripId) ==
  /\ lastOp' = OpWith("cancelTrip", user, NoNum, Undefined, NoAlert,
                      {Pair("wasActive", IF trips[tripId].status = "active" THEN 1 ELSE 0)})
  /\ IF trips[tripId].userId # user
     THEN /\ response' = Respond(403, <<>>)
          /\ emitted' = <<>>
          /\ UNCHANGED <<trips, isOnTrip>>
     ELSE IF trips[tripId].status \in {"completed", "cancelled"}
     THEN /\ response' = Respond(400, <<>>)
          /\ emitted' = <<>>
          /\ UNCHANGED <<trips, isOnTrip>>
     ELSE /\ trips' = [trips EXCEPT ![tripId].status = "cancelled"]
          /\ isOnTrip' = IF cancelTripClearsFlag(trips'[tripId].status)
                         THEN [isOnTrip EXCEPT ![user] = FALSE]
                         ELSE isOnTrip
          /\ emitted' = <<Event(UserRoom(trips[tripId].userId), "tripCancelled", <<>>, NoNum)>>
          /\ response' = Respond(200, <<>>)
  /\ UNCHANGED <<pending, emergencyContactNotified, joined, now, ticks, connected,
                 activeIntervals, userLocations, writtenAt, alerts, floods, rides>>

(* ---------------- cron jobs ---------------- *)
\* what happens to one location or segment of a cycle
Fine == 0
FetchFails == 1
StoreFails == 2
Outcomes == {Fine, FetchFails, StoreFails}

\* the items of a cycle: two of the lagosLocations, two segment ids
CronItems == <<1, 2>>

\* the weather job: each location has its own try/catch inside the loop, so a
\* failing fetch or weather.save() skips that location only
WeatherProcessed(outcome) ==
  SelectSeq(CronItems, LAMBDA i : outcome[i] = Fine)

\* the traffic job: a failing fetch returns null and is skipped with continue,
\* a failing Traffic.findOne or traffic.save() throws to the catch around the
\* whole loop
RECURSIVE TrafficProcessed(_, _)
TrafficProcessed(outcome, i) ==
  IF i > Len(CronItems) \/ outcome[i] = StoreFails THEN <<>>
  ELSE (IF outcome[i] = Fine THEN <<CronItems[i]>> ELSE <<>>)
       \o TrafficProcessed(outcome, i + 1)

\* lastOp.detail of a cycle: the outcome of each item
CycleDetail(outcome) == {Pair(ToString(i), outcome[i]) : i \in 1..Len(CronItems)}

\* cron.schedule('*/30 * * * *'): the weather job; high is whether the saved
\* readings carry floodRisk 'high'
weatherCron(outcome, high) ==
  /\ lastOp' = OpWith("weather-cron", Undefined, NoNum, Undefined, NoAlert,
                      CycleDetail(outcome))
  /\ LET done == WeatherProcessed(outcome)
     IN emitted' = [i \in 1..Len(done) |->
                      Event(Everyone, "weather-update", <<done[i]>>, NoNum)]
                   \o (IF high /\ done # <<>>
                       THEN <<Event(Everyone, "flood-risk-alert", done, NoNum)>>
                       ELSE <<>>)
  /\ response' = NoResponse
  /\ UNCHANGED <<rest, joined, now, ticks, connected, activeIntervals, userLocations,
                 writtenAt, alerts, floods, trips, rides>>

\* cron.schedule('*/15 * * * *'): the traffic job
trafficCron(outcome) ==
  /\ lastOp' = OpWith("traffic-cron", Undefined, NoNum, Undefined, NoAlert,
                      CycleDetail(outcome))
  /\ LET done == TrafficProcessed(outcome, 1)
     IN emitted' = [i \in 1..Len(done) |->
                      Event(Everyone, "traffic-update", <<done[i]>>, NoNum)]
  /\ response' = NoResponse
  /\ UNCHANGED <<rest, joined, now, ticks, connected, activeIntervals, userLocations,
                 writtenAt, alerts, floods, trips, rides>>

(* ---------------- specification ---------------- *)
\* Inputs.  s1/u1 is the user whose reports are followed, s2/u2 a second
\* connected user; every alert lies at the Lagos centre point (position 0),
\* where admin-broadcast puts its alerts too, and users move around it.
LocationLgas == {Undefined, "Surulere"}
ReportSeverities == {"low", "high"}
CreateBodies ==
  {[type |-> "traffic", severity |-> Undefined, location |-> 0,
    distanceTrigger |-> NoNum, validUntil |-> now - SecondMs, lga |-> "Ikeja"]}

SocketNext ==
  \/ \E s \in Sockets : Connect(s)
  \/ \E s \in Sockets : Disconnect(s)
  \/ \E lat \in {0, 500}, lga \in LocationLgas : UpdateLocation("s1", lat, lga)
  \/ UpdateLocation("s2", 4000, Undefined)

WriteNext ==
  \/ \E sev \in ReportSeverities : SubmitFloodReport("s1", 0, sev, "Ikeja")
  \/ \E body \in CreateBodies : createAlert("u1", TRUE, body)
  \/ \E id \in 1..MaxAlerts, sev \in {"low", "high"} : updateAlert("u1", id, sev, FALSE, FALSE)
  \/ \E id \in 1..MaxAlerts : updateAlert("u1", id, Undefined, TRUE, FALSE)
  \/ \E id \in 1..MaxAlerts, sev \in {"medium"} : updateAlertAdmin("u1", TRUE, id, sev)
  \/ \E u \in Users, t \in TripIds : checkTripAlerts(u, FALSE, t)
  \/ \E r \in RideIds : checkRideAlerts("u1", FALSE, r)

ReadNext ==
  \/ GetNearbyHotspots("s1", 500, ProximityMaxDistance, Undefined)
  \/ getAlertsNearLocation(500, FloodDistanceTrigger)
  \/ getAlertsNearLocationValid(500, FloodDistanceTrigger)

Next == SocketNext \/ WriteNext \/ ReadNext \/ Sweep

Spec == Init /\ [][Next]_vars

\* presence table under the clock: connections, position updates, the sweep
PresenceNext ==
  \/ SocketNext
  \/ \E d \in {SecondMs, StaleMs} : Tick(d)
  \/ Sweep

SpecPresence == Init /\ [][PresenceNext]_vars

\* the alert life cycle: users that stay connected, one of them reporting
\* its position, the alert endpoints and the cleanup interval
AlertNext ==
  \/ \E s \in Sockets : Connect(s)
  \/ UpdateLocation("s1", 0, Undefined)
  \/ WriteNext
  \/ getAlertsNearLocation(500, FloodDistanceTrigger)
  \/ Sweep

SpecAlerts == Init /\ [][AlertNext]_vars

\* the socket gateway with every kind of payload: handshakes with and
\* without a valid token, well-formed and malformed events, the rain
\* interval, a failing alert store, a ride being started
GatewayNext ==
  \/ \E s \in AllSockets : Handshake(s)
  \/ \E s \in Sockets : Disconnect(s)
  \/ \E lat \in {40, NoNum} : OnUpdateLocation("s1", lat, Undefined)
  \/ \E lat \in {0, 4000} : OnUpdateLocation("s2", lat, Undefined)
  \/ UpdateLocationQueryFails("s1", 40, Undefined)
  \/ \E sev \in {"low", "moderate", "high"}, lga \in {"Ikeja", Undefined} :
       OnSubmitFloodReport("s1", 0, sev, lga)
  \/ \E lat \in {500, NoNum} : OnGetNearbyHotspots("s1", lat, ProximityMaxDistance, Undefined)
  \/ \E lga \in {"Ikeja", Undefined}, adminToken \in {"admin", "guess"}, saved \in BOOLEAN :
       OnAdminBroadcast("s2", Undefined, lga, adminToken, saved)
  \/ \E rain \in {0, 6}, saved \in BOOLEAN : rainInterval("s2", rain, saved)
  \/ \E body \in CreateBodies : createAlert("u1", TRUE, body)
  \/ \E weatherHigh \in {0, 1}, floodHigh \in {0, 1}, saved \in BOOLEAN :
       generateWeatherFloodAlerts("u1", "admin", "Ikeja", weatherHigh, floodHigh, saved)
  \/ startRide("u1", FALSE, "r1")

SpecGateway == Init /\ [][GatewayNext]_vars

\* One user's connection seen from the handshake to the disconnect: payloads
\* that pass and that fail validation, and every path that stores an alert
ConnectionNext ==
  \/ \E s \in AllSockets : Handshake(s)
  \/ \E s \in Sockets : Disconnect(s)
  \/ \E lat \in {40, NoNum} : OnUpdateLocation("s1", lat, Undefined)
  \/ \E sev \in {"low", "moderate"}, lga \in {"Ikeja", Undefined} :
       OnSubmitFloodReport("s1", 0, sev, lga)
  \/ OnGetNearbyHotspots("s1", NoNum, ProximityMaxDistance, Undefined)
  \/ \E lga \in {"Ikeja", Undefined}, adminToken \in {"admin", "guess"}, saved \in BOOLEAN :
       OnAdminBroadcast("s1", Undefined, lga, adminToken, saved)
  \/ \E rain \in {0, 6}, saved \in BOOLEAN : rainInterval("s1", rain, saved)
  \/ \E body \in CreateBodies : createAlert("u1", TRUE, body)
  \/ \E saved \in BOOLEAN :
       generateWeatherFloodAlerts("u1", "admin", "Ikeja", 1, 0, saved)

SpecConnection == Init /\ [][ConnectionNext]_vars

\* The HTTP requests on one ride and one trip, with two emergency requests
\* that may overlap
RideNext ==
  \/ startRide("u1", FALSE, "r1")
  \/ completeRide("u1", "r1")
  \/ cancelRide("u1", "r1")
  \/ \E req \in Requests, u \in Users : triggerEmergencyAlertFind(req, u, "r1")
  \/ \E req \in Requests : triggerEmergencyAlertSave(req)
  \/ resetEmergencyNotification("u1", "r1")
  \/ \E u \in Users : startTrip(u, "t1")
  \/ \E u \in Users : completeTrip(u, "t1")
  \/ \E u \in Users : cancelTrip(u, "t1")

SpecRides == Init /\ [][RideNext]_vars

\* Two devices of u2 (s2 and s5) next to one device of u1
DeviceNext ==
  \/ \E s \in {"s1", "s2", "s5"} : Connect(s)
  \/ \E s \in {"s1", "s2", "s5"} : Disconnect(s)
  \/ \E s \in {"s2", "s5"}, lat \in {0, 4000} : UpdateLocation(s, lat, Undefined)
  \/ UpdateLocation("s1", 40, Undefined)
  \/ \E s \in {"s2", "s5"}, saved \in BOOLEAN : rainInterval(s, 6, saved)
  \/ \E body \in CreateBodies : createAlert("u1", TRUE, body)

SpecDevices == Init /\ [][DeviceNext]_vars

\* The periodic tasks: the rain interval of one connection and the two cron
\* jobs, with fetches and saves that may fail
TaskNext ==
  \/ Connect("s1")
  \/ Disconnect("s1")
  \/ UpdateLocation("s1", 40, Undefined)
  \/ \E rain \in {0, 6}, saved \in BOOLEAN : rainInterval("s1", rain, saved)
  \/ \E outcome \in [1..Len(CronItems) -> Outcomes], high \in BOOLEAN :
       weatherCron(outcome, high)
  \/ \E outcome \in [1..Len(CronItems) -> Outcomes] : trafficCron(outcome)

SpecTasks == Init /\ [][TaskNext]_vars

\* Handlers that overlap: a callback or request suspended at an await while
\* other handlers run
AsyncNext ==
  \/ \E s \in Sockets : Connect(s)
  \/ \E s \in Sockets : Disconnect(s)
  \/ UpdateLocation("s1", 40, Undefined)
  \/ rainIntervalFetch("s1")
  \/ \E saved \in BOOLEAN : rainIntervalResume("s1", 6, saved)
  \/ \E req \in Requests, lat \in {40, 4000} : UpdateLocationBegin(req, "s2", lat, Undefined)
  \/ \E req \in Requests : UpdateLocationDeliver(req)
  \/ \E req \in Requests : checkRideAlertsFind(req, "u1", FALSE, "r1")
  \/ \E req \in Requests : checkRideAlertsTrigger(req)

SpecAsync == Init /\ [][AsyncNext]_vars

(* ---------------- properties ---------------- *)
CheckOps == {"checkTripAlerts", "checkRideAlerts"}
NearOps == {"getAlertsNearLocation", "getAlertsNearLocationValid"}

\* the handler that ran last evaluated alerts against a position
Evaluated(op, resp) ==
  \/ op.name = "update-location"
  \/ op.name \in CheckOps /\ resp.status # 403

\* the alert ids carried by the proximityFloodAlert events of ev, in order
ProximityIds(ev) ==
  LET px == SelectSeq(ev, LAMBDA e : e.event = "proximityFloodAlert")
  IN [i \in 1..Len(px) |-> px[i].alerts[1]]

\* what the last evaluation produced: the alerts it answered with (check
\* endpoints) or delivered (sendProximityAlerts)
EvalResult ==
  IF lastOp.name \in CheckOps THEN response.alerts
  ELSE IF lastOp.name \in {"update-location", "submit-flood-report"}
  THEN ProximityIds(emitted)
  ELSE <<>>

Occurrences(list, x) == Cardinality({i \in 1..Len(list) : list[i] = x})

\* C1: an evaluation at position p includes every unexpired, untriggered
\* hazard within its own distanceTrigger of p exactly once in its result and
\* leaves it stored with triggered = true.
C1_InRangeHazardTriggeredOnce ==
  [][\A h \in AlertIds(alerts) :
       (/\ Evaluated(lastOp', response')
        /\ ~alerts[h].triggered
        /\ NotExpired(alerts[h], now)
        /\ CalculateDistance(lastOp'.lat, alerts[h].location) <= alerts[h].distanceTrigger)
       => (/\ Occurrences(EvalResult', h) = 1
           /\ alerts'[h].triggered)]_vars

C3_SecondEvaluationDisjoint ==
  /\ lastOp.name = "update-location" =>
       Range(EvalResult)
         \cap Range(ProximityIds(
                sendProximityAlerts(userLocations, alerts, trips, rides, lastOp.lat,
                                    lastOp.lga, NoAlert, lastOp.user, now).events)) = {}
  /\ (lastOp.name \in CheckOps /\ response.status = 200) =>
       Range(EvalResult) \cap Range(TriggeredAlerts(alerts, lastOp.lat, now)) = {}

\* the alert ids a query or evaluation answered with or delivered
QueryResults ==
  UNION {Range(emitted[i].alerts) :
           i \in {j \in 1..Len(emitted) :
                    emitted[j].event \in {"proximityFloodAlert", "nearbyHotspots",
                                          "tripAlerts", "rideAlerts"}}}
  \cup (IF lastOp.name \in CheckOps \cup NearOps THEN Range(response.alerts) ELSE {})

\* C4: no query path answers with or delivers an alert whose validUntil has
\* passed.
C4_ExpiredNeverReturned ==
  \A a \in QueryResults : NotExpired(alerts[a], now)

\* C5: every alert delivered to a user or answered by a check lies within
\* the alert's own distanceTrigger of that user's / that check's position.
C5_WithinOwnRadius ==
  /\ \A i \in 1..Len(emitted) :
       emitted[i].event = "proximityFloodAlert" =>
         CalculateDistance(GetLocation(userLocations, emitted[i].to[2]).latitude,
                           alerts[emitted[i].alerts[1]].location)
           <= alerts[emitted[i].alerts[1]].distanceTrigger
  /\ lastOp.name \in CheckOps =>
       \A a \in Range(response.alerts) :
         CalculateDistance(lastOp.lat, alerts[a].location) <= alerts[a].distanceTrigger

\* the ordered list the last query answered with
ResultList ==
  IF lastOp.name = "get-nearby-hotspots" THEN emitted[1].alerts
  ELSE IF lastOp.name \in CheckOps \cup NearOps THEN response.alerts
  ELSE <<>>

\* C6: in a query's answer, of two alerts at the same distance from the
\* query point the one of higher severity comes first, and the single alert
\* sendProximityAlerts picks is of the highest severity among its candidates.
C6_HigherSeverityFirst ==
  /\ \A i, j \in 1..Len(ResultList) :
       (/\ i < j
        /\ CalculateDistance(lastOp.lat, alerts[ResultList[i]].location)
             = CalculateDistance(lastOp.lat, alerts[ResultList[j]].location))
       => SeverityRank(alerts[ResultList[i]].severity)
            >= SeverityRank(alerts[ResultList[j]].severity)
  /\ lastOp.name = "update-location" =>
       \A a \in Range(ProximityIds(emitted)) :
         \A b \in Range(ProximityQuery(alerts, lastOp.lat, lastOp.lga, now)) :
           SeverityRank(alerts[a].severity) >= SeverityRank(alerts[b].severity)

\* the users the events of ev tell about alert a, each with the distance told
Notified(ev, a) ==
  {<<ev[i].to[2], ev[i].distance>> :
     i \in {j \in 1..Len(ev) :
              ev[j].event = "proximityFloodAlert" /\ ev[j].alerts = <<a>>}}

\* C7: after a user moved to within the radius of an untriggered, unexpired
\* hazard, the users notified of it and the distances told are those the
\* flood-report path yields when another user reports that hazard with the
\* moved user at the same position.
C7_MoveMatchesIngest ==
  lastOp.name = "update-location" =>
    \A a \in AlertIds(alerts) :
      (/\ ~alerts[a].triggered
       /\ NotExpired(alerts[a], now)
       /\ ShouldTrigger(alerts[a], lastOp.lat))
      => \A reporter \in Users \ {lastOp.user} :
           Notified(emitted, a)
             = Notified(sendProximityAlerts(userLocations, alerts, trips, rides,
                                            alerts[a].location, alerts[a].lga, a,
                                            reporter, now).events, a)

\* C8: right after a sweep no entry of userLocations was written more than
\* 30 minutes before.
C8_NoStaleRecordAfterSweep ==
  lastOp.name = "sweep" =>
    \A i \in 1..Len(userLocations) :
      now - writtenAt[userLocations[i].userId] <= StaleMs

\* a sweep found an entry written more than 30 minutes before and removed it
C8_Witness ==
  /\ lastOp.name = "sweep"
  /\ \E d \in lastOp.detail :
       d.value > StaleMs /\ ~HasLocation(userLocations, d.key)

\* C9: a sweep removes no entry written less than 30 minutes before it.
C9_FreshRecordRetained ==
  lastOp.name = "sweep" => \A d \in lastOp.detail : d.value >= StaleMs

\* C10: no step lowers the stored severity of an alert.
C10_SeverityNeverLowered ==
  [][\A a \in AlertIds(alerts) :
       SeverityRank(alerts'[a].severity) >= SeverityRank(alerts[a].severity)]_vars

\* the rank of the severity in the body of the update that ran last, 0 if none
GivenSeverity(op) == CHOOSE v \in 0..3 : Pair("severity", v) \in op.detail

\* the update that ran last was applied to alert a
UpdateApplied(op, resp, a) ==
  /\ op.name \in {"updateAlert", "updateAlertAdmin"}
  /\ op.alert = a
  /\ resp.status = 200

\* C10 (amended): an applied update whose body carries a severity leaves
\* exactly that severity stored, lower or higher than before; every other
\* step leaves the stored severity as it was.
C10_UpdateStoresGivenSeverity ==
  [][\A a \in AlertIds(alerts) :
       IF UpdateApplied(lastOp', response', a) /\ GivenSeverity(lastOp') # 0
       THEN SeverityRank(alerts'[a].severity) = GivenSeverity(lastOp')
       ELSE alerts'[a].severity = alerts[a].severity]_vars

\* an update with severity low was applied to an alert stored as high
C10_Witness ==
  /\ lastOp.name = "updateAlert"
  /\ response.status = 200
  /\ Pair("previous", 3) \in lastOp.detail
  /\ Pair("severity", 1) \in lastOp.detail
  /\ alerts[lastOp.alert].severity = "low"

\* the last handler was update-location with a well-formed payload whose
\* alert query went through
PositionUpdated(op) ==
  /\ op.name = "update-location"
  /\ op.lat # NoNum
  /\ Pair("alertQueryFailed", 1) \notin op.detail

\* the events of ev named name and sent to room
EventsTo(ev, room, name) ==
  SelectSeq(ev, LAMBDA e : e.to = room /\ e.event = name)

\* C11: after a position update, every untriggered, unexpired alert whose
\* radius holds the reported position has been sent as proximityFloodAlert to
\* the user channel of every other present user inside that radius, and no
\* proximityFloodAlert went to the reporting user's channel.
C11_TriggeredAlertToOthersInRange ==
  [][PositionUpdated(lastOp') =>
       /\ \A h \in AlertIds(alerts) :
            (/\ ~alerts[h].triggered
             /\ NotExpired(alerts[h], now)
             /\ ShouldTrigger(alerts[h], lastOp'.lat))
            => \A i \in 1..Len(userLocations') :
                 (/\ userLocations'[i].userId # lastOp'.user
                  /\ ShouldTrigger(alerts[h], userLocations'[i].latitude))
                 => \E j \in 1..Len(emitted') :
                      /\ emitted'[j].to = UserRoom(userLocations'[i].userId)
                      /\ emitted'[j].event = "proximityFloodAlert"
                      /\ emitted'[j].alerts = <<h>>
       /\ EventsTo(emitted', UserRoom(lastOp'.user), "proximityFloodAlert") = <<>>]_vars

\* user takes part in the trip or ride behind the room
BelongsTo(user, room) ==
  \/ room[1] = "trip" /\ trips[room[2]].userId = user
  \/ /\ room[1] = "ride"
     /\ \/ rides[room[2]].createdBy = user
        \/ user \in rides[room[2]].passengers
        \/ rides[room[2]].driver = user

\* C12: when a user reports a position 40 m from an untriggered, unexpired
\* hazard of radius 1000 m, the hazard is stored triggered, exactly one
\* proximityFloodAlert goes to that user's channel and one to the hazard's
\* region channel, and no event goes to a trip or ride room the user does not
\* belong to.
C12_NearbyReportScenario ==
  [][\A h \in AlertIds(alerts) :
       (/\ PositionUpdated(lastOp')
        /\ ~alerts[h].triggered
        /\ NotExpired(alerts[h], now)
        /\ alerts[h].distanceTrigger = FloodDistanceTrigger
        /\ CalculateDistance(lastOp'.lat, alerts[h].location) = 40)
       => /\ alerts'[h].triggered
          /\ Len(EventsTo(emitted', UserRoom(lastOp'.user), "proximityFloodAlert")) = 1
          /\ Len(EventsTo(emitted', LgaRoom(alerts[h].lga), "proximityFloodAlert")) = 1
          /\ \A j \in 1..Len(emitted') :
               emitted'[j].to[1] \in {"trip", "ride"}
                 => BelongsTo(lastOp'.user, emitted'[j].to)]_vars

\* C13: whenever sendProximityAlerts delivered an alert to a user, every
\* active trip that user owns got it as tripAlerts and every active ride the
\* user takes part in got a rideAlerts event; and a trip or ride room got an
\* event only if it is active and one of the notified users belongs to it.
C13_ActiveTripsAndRidesNotified ==
  lastOp.name \in {"update-location", "submit-flood-report"} =>
    /\ \A i \in 1..Len(emitted) :
         emitted[i].event = "proximityFloodAlert" =>
           /\ \A t \in TripIds :
                (trips[t].status = "active" /\ BelongsTo(emitted[i].to[2], TripRoom(t)))
                => \E j \in 1..Len(emitted) :
                     /\ emitted[j].to = TripRoom(t)
                     /\ emitted[j].event = "tripAlerts"
                     /\ emitted[j].alerts = emitted[i].alerts
           /\ \A r \in RideIds :
                (rides[r].status = "active" /\ BelongsTo(emitted[i].to[2], RideRoom(r)))
                => \E j \in 1..Len(emitted) :
                     /\ emitted[j].to = RideRoom(r)
                     /\ emitted[j].event = "rideAlerts"
    /\ \A j \in 1..Len(emitted) :
         emitted[j].event \in {"tripAlerts", "rideAlerts"} =>
           /\ IF emitted[j].to[1] = "trip"
              THEN trips[emitted[j].to[2]].status = "active"
              ELSE rides[emitted[j].to[2]].status = "active"
           /\ \E i \in 1..Len(emitted) :
                /\ emitted[i].event = "proximityFloodAlert"
                /\ BelongsTo(emitted[i].to[2], emitted[j].to)

\* C14: a socket without a token or with an invalid one is never connected,
\* holds no rain interval and is sent nothing but connect_error; its
\* handshake leaves the presence table, the collections and the other
\* connections as they were; the reason is "No token provided" for a missing
\* token and "Invalid token" for an invalid one.
C14_UnauthenticatedRejected ==
  /\ [](/\ \A s \in UnauthenticatedSockets : s \notin connected \cup activeIntervals
        /\ \A i \in 1..Len(emitted) :
             (emitted[i].to[1] = "socket" /\ emitted[i].to[2] \in UnauthenticatedSockets)
             => emitted[i].event = "connect_error"
        /\ lastOp.name = "handshake" =>
             \E s \in UnauthenticatedSockets :
               /\ emitted = <<Event(SocketOnly(s), "connect_error", <<>>, NoNum)>>
               /\ lastOp.detail = {Pair(IF Token(s) = Undefined
                                        THEN "No token provided" ELSE "Invalid token", 1)})
  /\ [][lastOp'.name = "handshake" =>
          UNCHANGED <<connected, activeIntervals, userLocations, writtenAt,
                      alerts, floods, trips, rides>>]_vars

\* the socket without a token was refused while another user is connected
\* and has a stored position
C14_Witness ==
  /\ lastOp.name = "handshake"
  /\ emitted = <<Event(SocketOnly("s3"), "connect_error", <<>>, NoNum)>>
  /\ "s1" \in connected
  /\ HasLocation(userLocations, "u1")

\* C15: the sockets holding a rain interval are exactly the connected ones,
\* and the interval callback only ever runs for a connected socket.
C15_IntervalPerConnection ==
  /\ activeIntervals = connected
  /\ lastOp.name = "rain-interval" =>
       \E s \in connected : SocketUser(s) = lastOp.user

\* a connected socket disconnected and its interval is gone, while the other
\* socket keeps its own
C15_Witness ==
  /\ lastOp.name = "disconnect"
  /\ \A s \in Sockets : SocketUser(s) = lastOp.user => s \notin activeIntervals
  /\ activeIntervals # {}

\* the last socket event carried a payload its schema refuses: no numeric
\* latitude, or no lga where the schema requires one
Malformed(op) ==
  /\ op.name \in {"update-location", "submit-flood-report", "get-nearby-hotspots",
                  "admin-broadcast"}
  /\ \/ op.lat = NoNum
     \/ op.name \in {"submit-flood-report", "admin-broadcast"} /\ op.lga = Undefined

\* C16: a socket event with a malformed payload emits one error event to the
\* sending socket and nothing else, and leaves the connections, the rain
\* intervals, the presence table and the flood, alert, trip and ride records
\* as they were; no room is joined.
C16_MalformedPayloadChangesNothing ==
  [][Malformed(lastOp') =>
       /\ \E s \in connected :
            /\ SocketUser(s) = lastOp'.user
            /\ emitted' = <<Event(SocketOnly(s), "error", <<>>, NoNum)>>
       /\ UNCHANGED <<connected, activeIntervals, userLocations, writtenAt,
                      alerts, floods, trips, rides>>]_vars

\* an update-location without latitude was answered with an error while the
\* sender stays connected with its earlier position stored
C16_Witness ==
  /\ lastOp.name = "update-location"
  /\ lastOp.lat = NoNum
  /\ emitted = <<Event(SocketOnly("s1"), "error", <<>>, NoNum)>>
  /\ "s1" \in connected
  /\ HasLocation(userLocations, "u1")

\* the radius the claim gives a kind of alert
KindRadius(type) == IF type \in {"flood", "weather"} THEN FloodDistanceTrigger
                    ELSE BroadcastDistanceTrigger

\* the validity window the claim gives a kind of alert
KindValidity(type) == IF type = "weather" THEN ThreeHoursMs ELSE DayMs

\* C17: every alert stored from a report, a broadcast or a weather or flood
\* reading (every creator but the createAlert endpoint, whose caller supplies
\* the values) has the radius of its kind (flood and weather 1000 m, traffic
\* and route 5000 m) and expires 3 hours after its creation if it is a
\* weather alert and 24 hours after it otherwise.
C17_RadiusAndValidityByKind ==
  [][\A i \in (Len(alerts) + 1)..Len(alerts') :
       lastOp'.name # "createAlert" =>
       /\ alerts'[i].distanceTrigger = KindRadius(alerts'[i].type)
       /\ alerts'[i].validUntil = now + KindValidity(alerts'[i].type)]_vars

\* C18: when the alert query of a position update fails, the new position is
\* stored for the user and no error event is emitted for that update.
C18_QueryFailureDoesNotFailUpdate ==
  (lastOp.name = "update-location" /\ Pair("alertQueryFailed", 1) \in lastOp.detail) =>
    /\ HasLocation(userLocations, lastOp.user)
    /\ GetLocation(userLocations, lastOp.user).latitude = lastOp.lat
    /\ \A i \in 1..Len(emitted) : emitted[i].event # "error"

\* C19: a submit-flood-report that ends with an error event leaves the flood
\* records and the alert records as they were and has emitted neither
\* alertCreated nor reportConfirmed.
C19_FailedReportLeavesNoState ==
  [][(/\ lastOp'.name = "submit-flood-report"
      /\ \E i \in 1..Len(emitted') : emitted'[i].event = "error")
     => /\ floods' = floods
        /\ alerts' = alerts
        /\ \A i \in 1..Len(emitted') :
             emitted'[i].event \notin {"alertCreated", "reportConfirmed"}]_vars

\* C20: every alertCreated event a step emits names one alert, and that alert
\* is one the same step has stored: its save went through before the emit.
C20_AnnouncedAlertIsStored ==
  [][\A i \in 1..Len(emitted') :
       emitted'[i].event = "alertCreated" =>
         /\ Len(emitted'[i].alerts) = 1
         /\ emitted'[i].alerts[1] \in (Len(alerts) + 1)..Len(alerts')]_vars

\* the rain interval stored a weather alert and announced it to the lga room
C20_Witness ==
  /\ lastOp.name = "rain-interval"
  /\ alerts # <<>>
  /\ alerts[Len(alerts)].type = "weather"
  /\ \E i \in 1..Len(emitted) :
       /\ emitted[i].event = "alertCreated"
       /\ emitted[i].alerts = <<Len(alerts)>>

\* the alerts a step has marked triggered
NewlyTriggered ==
  {i \in 1..Len(alerts) : ~alerts[i].triggered /\ alerts'[i].triggered}

\* C27: whenever a checkTripAlerts request stores an alert as triggered, the
\* same request saves the trip with one more entry per such alert and does not
\* end in an error.
C27_TriggeredWithTripEntry ==
  [][(lastOp'.name = "checkTripAlerts" /\ NewlyTriggered # {}) =>
       /\ response'.status = 200
       /\ \E t \in TripIds :
            Len(trips'[t].alerts) = Len(trips[t].alerts) + Cardinality(NewlyTriggered)]_vars

\* C28: a ride changes status only pending -> active, active -> completed or
\* pending/active -> cancelled; a completed or cancelled ride keeps its status.
C28_RideStatusMachine ==
  [][\A r \in RideIds :
       \/ rides'[r].status = rides[r].status
       \/ rides[r].status = "pending" /\ rides'[r].status \in {"active", "cancelled"}
       \/ rides[r].status = "active" /\ rides'[r].status \in {"completed", "cancelled"}]_vars

\* C29: a startTrip that succeeds leaves the caller's isOnTrip true, and a
\* completeTrip or cancelTrip that succeeds on the caller's active trip leaves
\* it false.
C29_IsOnTripFollowsTrip ==
  [][/\ (lastOp'.name = "startTrip" /\ response'.status = 200)
          => isOnTrip'[lastOp'.user]
     /\ \A t \in TripIds :
          (/\ lastOp'.name \in {"completeTrip", "cancelTrip"}
           /\ response'.status = 200
           /\ trips[t].userId = lastOp'.user
           /\ trips[t].status = "active"
           /\ trips'[t].status # "active")
          => ~isOnTrip'[lastOp'.user]]_vars

\* C30: a triggerEmergencyAlert request succeeds and emits emergencyAlert only
\* if the ride's emergencyContactNotified flag is false when it does; between
\* two resets at most one request succeeds.
C30_EmergencyRaisedOnce ==
  [][(lastOp'.name = "triggerEmergencyAlert" /\ response'.status = 200) =>
       \A r \in RideIds :
         (\E i \in 1..Len(emitted') : emitted'[i].to = RideRoom(r))
           => ~emergencyContactNotified[r]]_vars

\* the rooms of a kind ("location" or "lga") a socket has joined
RoomsOfKind(s, kind) == {room \in joined[s] : room[1] = kind}

\* C26: a connected socket is in at most one location room and at most one lga
\* room, and they are the ones of the position its user reported last.
C26_OneGridAndRegionRoom ==
  \A s \in connected :
    /\ Cardinality(RoomsOfKind(s, "location")) <= 1
    /\ Cardinality(RoomsOfKind(s, "lga")) <= 1
    /\ HasLocation(userLocations, SocketUser(s)) =>
         RoomsOfKind(s, "location")
           \subseteq {LocationRoom(GetLocation(userLocations, SocketUser(s)).latitude)}

\* C25: a connected socket that has reported a position (it sits in a
\* location room) has its user in userLocations, whatever other sockets of
\* that user have done since.
C25_PresenceWhileADeviceRemains ==
  \A s \in connected :
    RoomsOfKind(s, "location") # {} => HasLocation(userLocations, SocketUser(s))

\* the items of the last cycle whose own fetch and save went through
FineItems == {i \in 1..Len(CronItems) : Pair(ToString(i), Fine) \in lastOp.detail}

\* the items the last cycle announced as updated
UpdatedItems ==
  {emitted[i].alerts[1] :
     i \in {j \in 1..Len(emitted) : emitted[j].event \in {"weather-update", "traffic-update"}}}

\* C24: after a cycle of the weather job or the traffic job, every location
\* or segment whose own fetch and save went through has been processed,
\* whatever happened to the other ones.
C24_FailureSkipsOnlyItsItem ==
  lastOp.name \in {"weather-cron", "traffic-cron"} =>
    \A i \in FineItems : CronItems[i] \in UpdatedItems

\* C21: a run of the rain interval callback for a user none of whose sockets
\* is connected emits nothing and stores no alert.
C21_NoRainEffectAfterDisconnect ==
  [][(/\ lastOp'.name = "rain-interval"
      /\ \A s \in Sockets : SocketUser(s) = lastOp'.user => s \notin connected')
     => /\ emitted' = <<>>
        /\ alerts' = alerts]_vars

\* the update-location handlers of socket s that are suspended
InProgress(s) == {p \in pending : p.kind = "update-location" /\ p.target = s}

\* C22: of one socket at most one update-location handler is in progress at
\* any time: a second one does not begin before the evaluation and the
\* deliveries of the first are done.
C22_OneHandlerAtATime ==
  \A s \in Sockets : Cardinality(InProgress(s)) <= 1

\* C23: a checkRideAlerts request reports and announces an alert as triggered
\* only if that alert was not yet triggered when it does, so no two requests
\* report the same alert.
C23_TriggeredReportedOnce ==
  [][(/\ lastOp'.name = "checkRideAlerts"
      /\ response'.status = 200)
     => \A i \in 1..Len(response'.alerts) : ~alerts[response'.alerts[i]].triggered]_vars

====
